---- MODULE Spec2Model ----
(***************************************************************************)
(* Model of luigi/contrib/sqla.py: SQLAlchemyTarget (the completion marker *)
(* kept in the marker table) and CopyToTable (create_table, the chunked    *)
(* insertion loop of run(), and the marker touch that follows it).         *)
(*                                                                         *)
(* The backend is modelled by two tables: the target table `tbl` and the   *)
(* marker table `mtab`.  Every call into the backend may fail; the failure *)
(* points of a handler are inputs of its action.  One caller issues the    *)
(* operations one after the other (non-overlapping calls); independent     *)
(* processes whose calls overlap are modelled statement by statement in    *)
(* `procs`.                                                                *)
(***************************************************************************)
EXTENDS Integers, Sequences, FiniteSets, TLC

VARIABLES
    reflect,      \* CopyToTable.reflect (class attribute, line 146)
    columns,      \* the kind of CopyToTable.columns (class attribute, line 140)
    chunk_size,   \* CopyToTable.chunk_size (class attribute, line 145)
    input,        \* the rows that rows() yields (lines 192-197)
    tbl,          \* backend: the target table [exists, ncols, rows]
    mtab,         \* backend: the marker table [exists, rows]
    now,          \* datetime.datetime.now()
    run,          \* the run() call in progress, or the one that ended last
    last,         \* the caller's last output().exists() / output().touch() call
    hist,         \* history of the calls made so far
    procs         \* the calls of independent processes that overlap in time

vars == <<reflect, columns, chunk_size, input, tbl, mtab, now, run, last, hist, procs>>

----------------------------------------------------------------------------
(* Bounds of the model *)

\* number of column specs of a well-formed `columns`, and of a table made by other means
NCols == 2
\* longest row sequence rows() yields
MaxRows == 5
\* largest chunk_size
MaxChunk == 2
\* touch() calls are made while now < MaxClock (each touch advances the clock)
MaxClock == 4
\* run() attempts made
MaxRuns == 2

\* update ids of the tasks (task_id, line 182); all load into the same table
Ids == {"a", "b"}

\* Python None / SQL NULL (line 55, line 73)
Null == -1

Min(a, b) == IF a < b THEN a ELSE b

----------------------------------------------------------------------------
(* Row source: rows(), lines 192-197 *)

\* the row produced from line i of the input, with w fields
Row(i, w) == [j \in 1..w |-> 10 * i + j]

\* rows() for an input whose i-th line has widths[i] fields
Rows(widths) == [i \in 1..Len(widths) |-> Row(i, widths[i])]

\* the inputs tried: up to MaxRows rows, at most one of them not NCols wide
Inputs ==
    LET W == UNION {[1..n -> {NCols - 1, NCols, NCols + 1}] : n \in 0..MaxRows}
    IN  {Rows(w) : w \in {v \in W : Cardinality({i \in DOMAIN v : v[i] # NCols}) <= 1}}

\* the kinds of `columns`: [] ; specs that are not (args, kwargs) pairs ;
\* pairs that Column() rejects, such as ("id", None) ; well-formed pairs
ColumnKinds == {"empty", "badlen", "notype", "valid"}

----------------------------------------------------------------------------
(* SQLAlchemyTarget *)

\* marker_table_bound = None (line 55)
NoneBound == [set |-> FALSE, dflt |-> Null]

\* the rows of marker table m with update_id = id (the WHERE clause of line 79).
\* A table is a bag of rows: a row carries the index `copy` that tells it from the
\* rows equal to it (with the primary key enforced every row has copy = 1)
Matching(m, id) == {r \in m.rows : r.update_id = id}

\* backend: the primary key of the marker table (line 100) rejects a statement
\* whose result would hold n rows with one update_id
NoPKCheck(n) == FALSE
PKViolation(n) == n > 1

\* create_marker_table(), lines 91-106.  m: the marker table, b: marker_table_bound,
\* t: the time, f: where the backend fails ("none": nowhere)
CMFail == {"none", "begin", "ddl", "commit"}

create_marker_table(m, b, t, f) ==
    IF f = "begin"
    THEN [m |-> m, b |-> b, raised |-> TRUE]
    ELSE IF ~m.exists
    THEN \* lines 99-103: the Table is bound before create_all runs
         LET nb == [set |-> TRUE, dflt |-> t]
         IN  IF f = "ddl"
             THEN [m |-> m, b |-> nb, raised |-> TRUE]
             ELSE [m |-> [m EXCEPT !.exists = TRUE], b |-> nb, raised |-> (f = "commit")]
    ELSE \* lines 105-106: a reflected table carries no Python-side default
         IF f = "ddl"
         THEN [m |-> m, b |-> b, raised |-> TRUE]
         ELSE [m |-> m, b |-> [set |-> TRUE, dflt |-> Null], raised |-> (f = "commit")]

\* exists(), lines 72-84.  fc: the failure of create_marker_table, fq: the lookup fails
exists(m, b, id, t, fc, fq) ==
    LET c == IF ~b.set THEN create_marker_table(m, b, t, fc)
                       ELSE [m |-> m, b |-> b, raised |-> FALSE]
    IN  IF c.raised
        THEN [m |-> c.m, b |-> c.b, raised |-> TRUE, ret |-> FALSE]
        ELSE [m |-> c.m, b |-> c.b, raised |-> FALSE,
              ret |-> IF fq \/ ~c.m.exists THEN FALSE ELSE Matching(c.m, id) # {}]

\* line 66: table.insert().values(update_id, target_table); `inserted` takes the
\* column default of the bound table
InsertNothing(m, b, id) == m
InsertMarker(m, b, id) ==
    [m EXCEPT !.rows = @ \cup {[update_id |-> id, target_table |-> "t", inserted |-> b.dflt,
                                copy |-> Cardinality(Matching(m, id)) + 1]}]

\* line 68: table.update().values(update_id, target_table, inserted=now), with no
\* WHERE clause: every row of the marker table is rewritten
UpdateMarker(m, id, t) ==
    [m EXCEPT !.rows = {[update_id |-> id, target_table |-> "t", inserted |-> t, copy |-> k] :
                           k \in 1..Cardinality(m.rows)}]

\* line 70: assert self.exists()
MissingAssert(recheck) == "ok"
AssertExists(recheck) == IF recheck THEN "ok" ELSE "AssertionError"

\* touch(), lines 57-70.  F: the failure points [cmt, q1, exec, q2]
\* (a failure that raises ends the call: no later point is then reached)
TouchFails == {F \in [cmt : CMFail, q1 : BOOLEAN, exec : BOOLEAN, q2 : BOOLEAN] :
                 /\ F.cmt # "none" => ~F.q1 /\ ~F.exec /\ ~F.q2
                 /\ F.exec => ~F.q2}
NoTouchFail == [cmt |-> "none", q1 |-> FALSE, exec |-> FALSE, q2 |-> FALSE]

touch(m, b, id, t, F) ==
    LET c == create_marker_table(m, b, t, F.cmt)
        id_exists == exists(c.m, c.b, id, t, "none", F.q1).ret
        n == IF id_exists THEN Cardinality(c.m.rows)
                          ELSE Cardinality(Matching(c.m, id)) + 1
        m2 == IF id_exists THEN UpdateMarker(c.m, id, t) ELSE InsertMarker(c.m, c.b, id)
        recheck == exists(m2, c.b, id, t, "none", F.q2).ret
    IN  IF c.raised
        THEN [m |-> c.m, b |-> c.b, outcome |-> "BackendError", wrote |-> FALSE, recheck |-> FALSE]
        ELSE IF PKViolation(n)
        THEN [m |-> c.m, b |-> c.b, outcome |-> "IntegrityError", wrote |-> FALSE, recheck |-> FALSE]
        ELSE IF F.exec
        THEN [m |-> c.m, b |-> c.b, outcome |-> "BackendError", wrote |-> FALSE, recheck |-> FALSE]
        ELSE [m |-> m2, b |-> c.b, outcome |-> AssertExists(recheck), wrote |-> TRUE,
              recheck |-> recheck]

----------------------------------------------------------------------------
(* CopyToTable *)

\* self.table_bound before create_table has set it
Unbound == [set |-> FALSE, ncols |-> 0]

\* len(self.columns)
NumColumns == IF columns = "empty" THEN 0 ELSE NCols

\* line 161
needs_setup == IF ~reflect THEN columns \in {"empty", "badlen"} ELSE FALSE

\* create_table(), lines 148-178.  t: the target table, tb: self.table_bound,
\* f: where the backend fails.  A failure inside the try block is logged and
\* swallowed (lines 177-178); engine.begin() and the commit are outside it
CTFail == {"none", "begin", "has_table", "ddl", "commit"}

\* lines 175-176: metadata.reflect, then the Table the catalog describes
BoundFromColumns(t) == [set |-> TRUE, ncols |-> NumColumns]
Reflected(t) == [set |-> TRUE, ncols |-> t.ncols]

create_table(t, tb, f) ==
    IF needs_setup
    THEN [tbl |-> t, tb |-> tb, raised |-> "NotImplementedError"]
    ELSE IF f = "begin"
    THEN [tbl |-> t, tb |-> tb, raised |-> "BackendError"]
    ELSE LET body ==
               IF f = "has_table"
               THEN [tbl |-> t, tb |-> tb]
               ELSE IF ~t.exists
               THEN IF columns \in {"badlen", "notype"}
                    THEN \* construct_sqla_columns raises (line 158)
                         [tbl |-> t, tb |-> tb]
                    ELSE LET nb == [set |-> TRUE, ncols |-> NumColumns]
                         IN  IF f = "ddl"
                             THEN [tbl |-> t, tb |-> nb]
                             ELSE [tbl |-> [exists |-> TRUE, ncols |-> NumColumns,
                                            rows |-> <<>>],
                                   tb |-> nb]
               ELSE IF f = "ddl"
                    THEN [tbl |-> t, tb |-> tb]
                    ELSE [tbl |-> t, tb |-> Reflected(t)]
         IN  [tbl |-> body.tbl, tb |-> body.tb,
              raised |-> IF f = "commit" THEN "BackendError" ELSE "none"]

\* itertools.islice(rows, self.chunk_size) on an iterator that has yielded pos rows
\* (lines 206, 211)
ShortSlice(rows, pos, c) == SubSeq(rows, pos + 1, Min(pos + c, Len(rows)) - 1)
islice(rows, pos, c) == SubSeq(rows, pos + 1, Min(pos + c, Len(rows)))

\* dict(zip((c.key for c in self.table_bound.c), row)), lines 205 and 210: the
\* values of `row` paired with the first columns; zip stops at the shorter one
ZipRow(ncols, row) == SubSeq(row, 1, Min(ncols, Len(row)))

\* the row the backend stores for a dict d: a column d has no key for is NULL
StoredRow(ncols, d) == [j \in 1..ncols |-> IF j <= Len(d) THEN d[j] ELSE Null]

\* ins_rows, lines 205-206 and 210-211
ins_rows(tb, pos) == [k \in 1..Len(islice(input, pos, chunk_size)) |->
                        ZipRow(tb.ncols, islice(input, pos, chunk_size)[k])]

\* what conn.execute(ins, ins_rows) adds to the open transaction (line 209); each
\* stored row is tagged with the update id, the run() attempt and the input row it
\* came from
Executed(id, att, tb, pos, batch) ==
    [k \in 1..Len(batch) |->
        [src |-> id, att |-> att, idx |-> pos + k, vals |-> StoredRow(tb.ncols, batch[k])]]

\* `with output.engine.begin() as conn` (line 203): leaving the block commits,
\* an exception inside it rolls back
CommitLost(rows, tx) == rows
Commit(rows, tx) == rows \o tx
RollbackKeeps(rows, tx) == rows \o tx
Rollback(rows, tx) == rows

\* the independent processes, and a process that has made no call
Procs == {1, 2}

IdleProc == [op |-> "none", id |-> "none", pc |-> "idle", seen |-> FALSE, tb |-> Unbound,
             b |-> NoneBound, id_exists |-> FALSE, ret |-> FALSE, outcome |-> "none",
             created |-> FALSE, had |-> FALSE, logged |-> "none"]

IdleRun == [pc |-> "idle", id |-> "none", att |-> 0, tb |-> Unbound, pos |-> 0,
            batch |-> <<>>, tx |-> <<>>, issued |-> <<>>, outcome |-> "none",
            stage |-> "none", faulty |-> FALSE, touched |-> FALSE, recheck |-> FALSE,
            marked |-> FALSE, t0 |-> [exists |-> FALSE, ncols |-> 0, rows |-> <<>>]]

NoLast == [op |-> "none", id |-> "none", outcome |-> "none", ret |-> FALSE,
           recheck |-> FALSE, faulty |-> FALSE, had |-> FALSE, n0 |-> 0]

----------------------------------------------------------------------------
(* Initial states: nothing has run; the target table may have been made by  *)
(* other means (the case `reflect` is for); the marker table does not exist *)

InitWith(reflects, kinds, chunks, inputs) ==
    /\ reflect \in reflects
    /\ columns \in kinds
    /\ chunk_size \in chunks
    /\ input \in inputs
    /\ tbl \in {[exists |-> FALSE, ncols |-> 0, rows |-> <<>>],
                [exists |-> TRUE, ncols |-> NCols, rows |-> <<>>]}
    /\ mtab = [exists |-> FALSE, rows |-> {}]
    /\ now = 1
    /\ run = IdleRun
    /\ last = NoLast
    /\ hist = [unguarded |-> {}, nruns |-> 0]
    /\ procs = [p \in Procs |-> IdleProc]

\* the marker protocol: a task with well-formed columns, no rows or two rows, one
\* row to a chunk
Init == InitWith({FALSE}, {"valid"}, {1}, {Rows(<<>>), Rows(<<NCols, NCols>>)})

\* the scheduler's runs: every configuration of the task
InitRuns == InitWith(BOOLEAN, ColumnKinds, {1}, {Rows(<<>>), Rows(<<NCols, NCols>>)})

\* the loader: every configuration, chunk size and input
InitLoad == InitWith(BOOLEAN, ColumnKinds, 1..MaxChunk, Inputs)

CallerFree == run.pc \in {"idle", "done"}

Config == <<reflect, columns, chunk_size, input>>

Marked(id) == Matching(mtab, id) # {}

----------------------------------------------------------------------------
(* The caller's operations on the target of a task: output() makes a new    *)
(* SQLAlchemyTarget (lines 184-190, 44-55), whose marker_table_bound is None *)

\* output().exists(), lines 72-84
Exists(id) ==
    /\ CallerFree
    /\ \E fc \in CMFail, fq \in BOOLEAN :
         /\ fc # "none" => ~fq
         /\ LET r == exists(mtab, NoneBound, id, now, fc, fq)
            IN  /\ mtab' = r.m
                /\ last' = [NoLast EXCEPT
                              !.op = "exists", !.id = id,
                              !.outcome = IF r.raised THEN "BackendError" ELSE "ok",
                              !.ret = r.ret, !.faulty = (fc # "none" \/ fq),
                              !.had = Marked(id)]
    /\ run' = IdleRun
    /\ UNCHANGED <<Config, procs, tbl, now, hist>>

\* output().touch(), lines 57-70
Touch(id) ==
    /\ CallerFree
    /\ now < MaxClock
    /\ \E F \in TouchFails :
         LET r == touch(mtab, NoneBound, id, now, F)
         IN  /\ mtab' = r.m
             /\ last' = [NoLast EXCEPT
                           !.op = "touch", !.id = id, !.outcome = r.outcome,
                           !.recheck = r.recheck, !.faulty = (F # NoTouchFail),
                           !.had = Marked(id),
                           !.n0 = Cardinality(mtab.rows)]
    /\ now' = now + 1
    /\ run' = IdleRun
    /\ UNCHANGED <<Config, procs, tbl, hist>>

----------------------------------------------------------------------------
(* run(), lines 199-214, step by step.  Each call runs on a task instance   *)
(* that has not run before (self.table_bound is not yet assigned).          *)

Ended(r, outcome, stage) ==
    [r EXCEPT !.pc = "done", !.outcome = outcome, !.stage = stage,
              !.batch = <<>>, !.tx = <<>>, !.issued = <<>>]

\* lines 200-206: output(), create_table(), engine.begin(), the first chunk
RunStart(id) ==
    /\ CallerFree
    /\ hist.nruns < MaxRuns
    /\ now < MaxClock
    /\ \E f \in CTFail, fb \in BOOLEAN :
         /\ f # "none" => ~fb
         /\ LET c == create_table(tbl, Unbound, f)
                r0 == [IdleRun EXCEPT !.id = id, !.att = hist.nruns + 1, !.tb = c.tb,
                                      !.faulty = (f # "none" \/ fb),
                                      !.marked = Marked(id), !.t0 = tbl]
                first == islice(input, 0, chunk_size)
            IN  /\ tbl' = c.tbl
                /\ run' = IF c.raised # "none"
                          THEN Ended(r0, c.raised, "create_table")
                          ELSE IF fb
                          THEN Ended(r0, "BackendError", "begin")
                          ELSE IF first # <<>> /\ ~c.tb.set
                          THEN \* self.table_bound was never assigned
                               Ended(r0, "AttributeError", "map")
                          ELSE [r0 EXCEPT !.pc = IF first = <<>> THEN "commit" ELSE "load",
                                          !.batch = IF first = <<>> THEN <<>>
                                                    ELSE ins_rows(c.tb, 0)]
    /\ hist' = [hist EXCEPT
                  !.nruns = @ + 1,
                  !.unguarded = IF last.op = "exists" /\ last.id = id
                                   /\ last.outcome = "ok" /\ ~last.ret
                                THEN @ ELSE @ \cup {id}]
    /\ last' = NoLast
    /\ UNCHANGED <<Config, procs, mtab, now>>

\* lines 208-211: one multi-row insert, then the next chunk
LoadBatch ==
    /\ run.pc = "load"
    /\ \E fail \in BOOLEAN :
         LET n == run.pos + Len(run.batch)
             next == islice(input, n, chunk_size)
         IN  IF fail \/ ~tbl.exists
             THEN /\ run' = Ended([run EXCEPT !.faulty = @ \/ fail], "BackendError", "insert")
                  /\ tbl' = [tbl EXCEPT !.rows = Rollback(@, run.tx)]
             ELSE /\ run' = [run EXCEPT
                               !.tx = @ \o Executed(run.id, run.att, run.tb, run.pos, run.batch),
                               !.issued = Append(@, run.batch),
                               !.pos = n,
                               !.batch = IF next = <<>> THEN <<>> ELSE ins_rows(run.tb, n),
                               !.pc = IF next = <<>> THEN "commit" ELSE "load"]
                  /\ UNCHANGED tbl
    /\ UNCHANGED <<Config, procs, mtab, now, last, hist>>

\* leaving the `with` block of line 203: the data transaction commits
RunCommit ==
    /\ run.pc = "commit"
    /\ \E fail \in BOOLEAN :
         IF fail
         THEN /\ run' = Ended([run EXCEPT !.faulty = TRUE], "BackendError", "commit")
              /\ tbl' = [tbl EXCEPT !.rows = Rollback(@, run.tx)]
         ELSE /\ run' = [run EXCEPT !.pc = "touch", !.tx = <<>>]
              /\ tbl' = [tbl EXCEPT !.rows = Commit(@, run.tx)]
    /\ UNCHANGED <<Config, procs, mtab, now, last, hist>>

\* line 213: output.touch(), on the target object made at line 201
RunTouch ==
    /\ run.pc = "touch"
    /\ \E F \in TouchFails :
         LET r == touch(mtab, NoneBound, run.id, now, F)
         IN  /\ mtab' = r.m
             /\ run' = [Ended(run, r.outcome, "touch") EXCEPT
                          !.faulty = @ \/ F # NoTouchFail,
                          !.touched = TRUE, !.recheck = r.recheck]
    /\ now' = now + 1
    /\ UNCHANGED <<Config, procs, tbl, last, hist>>

Next ==
    \/ \E id \in Ids : Exists(id)
    \/ \E id \in Ids : Touch(id)
    \/ \E id \in Ids : RunStart(id)
    \/ LoadBatch
    \/ RunCommit
    \/ RunTouch

Spec == Init /\ [][Next]_vars

\* the scheduler's calls only: output().exists() and run()
NextRuns ==
    \/ \E id \in Ids : Exists(id)
    \/ \E id \in Ids : RunStart(id)
    \/ LoadBatch
    \/ RunCommit
    \/ RunTouch

SpecRuns == InitRuns /\ [][NextRuns]_vars

\* one run() call on a new database
NextLoad ==
    \/ \E id \in Ids : hist.nruns = 0 /\ RunStart(id)
    \/ LoadBatch
    \/ RunCommit
    \/ RunTouch

SpecLoad == InitLoad /\ [][NextLoad]_vars

----------------------------------------------------------------------------
(* Independent processes.  Each process makes one call; a step of a process *)
(* is one statement sent to the backend, so the statements of two calls     *)
(* interleave in every order.  No backend failure is injected here: the     *)
(* only errors are those the other process's statements cause.              *)

SetProc(p, r) == procs' = [procs EXCEPT ![p] = r]

Done(r, outcome) == [r EXCEPT !.pc = "done", !.outcome = outcome]

\* lines 177-178: `except Exception as e: logger.exception(...)`; the call goes on
Reraise(e) == e
LogException(e) == "ok"

\* the caller invokes create_table (line 202); lines 161-164
CallCreateTable(p) ==
    /\ procs[p].pc = "idle"
    /\ LET r == [IdleProc EXCEPT !.op = "create_table", !.had = tbl.exists]
       IN  SetProc(p, IF needs_setup THEN Done(r, "NotImplementedError")
                                     ELSE [r EXCEPT !.pc = "ct_has_table"])
    /\ UNCHANGED <<Config, tbl, mtab, now, run, last, hist>>

\* lines 170-172: has_table; when false, the columns are built and table_bound is
\* assigned, and create_all (line 173) is entered
CTHasTable(p) ==
    /\ procs[p].pc = "ct_has_table"
    /\ LET r == [procs[p] EXCEPT !.seen = tbl.exists]
       IN  SetProc(p, IF tbl.exists
                      THEN [r EXCEPT !.pc = "ct_reflect"]
                      ELSE IF columns \in {"badlen", "notype"}
                      THEN Done([r EXCEPT !.logged = "TypeError"], LogException("TypeError"))
                      ELSE [r EXCEPT !.pc = "ct_checkfirst",
                                     !.tb = [set |-> TRUE, ncols |-> NumColumns]])
    /\ UNCHANGED <<Config, tbl, mtab, now, run, last, hist>>

\* line 173: metadata.create_all looks the table up first (checkfirst) ...
CTCheckFirst(p) ==
    /\ procs[p].pc = "ct_checkfirst"
    /\ SetProc(p, IF tbl.exists THEN Done(procs[p], "ok")
                                ELSE [procs[p] EXCEPT !.pc = "ct_create"])
    /\ UNCHANGED <<Config, tbl, mtab, now, run, last, hist>>

\* ... and then sends CREATE TABLE, which the backend rejects when the table exists
CTCreate(p) ==
    /\ procs[p].pc = "ct_create"
    /\ IF tbl.exists
       THEN /\ SetProc(p, Done([procs[p] EXCEPT !.logged = "TableExistsError"],
                               LogException("TableExistsError")))
            /\ UNCHANGED tbl
       ELSE /\ SetProc(p, Done([procs[p] EXCEPT !.created = TRUE], "ok"))
            /\ tbl' = [exists |-> TRUE, ncols |-> NumColumns, rows |-> <<>>]
    /\ UNCHANGED <<Config, mtab, now, run, last, hist>>

\* lines 175-176
CTReflect(p) ==
    /\ procs[p].pc = "ct_reflect"
    /\ SetProc(p, Done([procs[p] EXCEPT !.tb = Reflected(tbl)], "ok"))
    /\ UNCHANGED <<Config, tbl, mtab, now, run, last, hist>>

\* output().touch() (line 57) and output().exists() (line 72) on a new target: both
\* begin with create_marker_table (lines 60, 74-75)
CallTouch(p, id) ==
    /\ procs[p].pc = "idle"
    /\ SetProc(p, [IdleProc EXCEPT !.op = "touch", !.id = id, !.pc = "cm_has_table",
                                   !.had = Marked(id)])
    /\ UNCHANGED <<Config, tbl, mtab, now, run, last, hist>>

CallExists(p, id) ==
    /\ procs[p].pc = "idle"
    /\ SetProc(p, [IdleProc EXCEPT !.op = "exists", !.id = id, !.pc = "cm_has_table",
                                   !.had = Marked(id)])
    /\ UNCHANGED <<Config, tbl, mtab, now, run, last, hist>>

\* lines 98-102: has_table; when false, the Table is defined (its default is the
\* time of the definition) and create_all (line 103) is entered
CMHasTable(p) ==
    /\ procs[p].pc = "cm_has_table"
    /\ LET r == [procs[p] EXCEPT !.seen = mtab.exists]
       IN  SetProc(p, IF mtab.exists
                      THEN [r EXCEPT !.pc = "cm_reflect"]
                      ELSE [r EXCEPT !.pc = "cm_checkfirst",
                                     !.b = [set |-> TRUE, dflt |-> now]])
    /\ UNCHANGED <<Config, tbl, mtab, now, run, last, hist>>

\* the statement that follows create_marker_table: line 64 in touch, line 79 in exists
AfterMarkerTable(r) == [r EXCEPT !.pc = IF r.op = "touch" THEN "id_exists" ELSE "lookup"]

\* line 103: create_all looks the table up first ...
CMCheckFirst(p) ==
    /\ procs[p].pc = "cm_checkfirst"
    /\ SetProc(p, IF mtab.exists THEN AfterMarkerTable(procs[p])
                                 ELSE [procs[p] EXCEPT !.pc = "cm_create"])
    /\ UNCHANGED <<Config, tbl, mtab, now, run, last, hist>>

\* ... and then sends CREATE TABLE; its error is not caught (lines 96-103)
CMCreate(p) ==
    /\ procs[p].pc = "cm_create"
    /\ IF mtab.exists
       THEN /\ SetProc(p, Done(procs[p], "TableExistsError"))
            /\ UNCHANGED mtab
       ELSE /\ SetProc(p, AfterMarkerTable([procs[p] EXCEPT !.created = TRUE]))
            /\ mtab' = [mtab EXCEPT !.exists = TRUE]
    /\ UNCHANGED <<Config, tbl, now, run, last, hist>>

\* lines 105-106
CMReflect(p) ==
    /\ procs[p].pc = "cm_reflect"
    /\ SetProc(p, AfterMarkerTable([procs[p] EXCEPT !.b = [set |-> TRUE, dflt |-> Null]]))
    /\ UNCHANGED <<Config, tbl, mtab, now, run, last, hist>>

\* line 64: id_exists = self.exists(), a lookup in a transaction of its own
TIdExists(p) ==
    /\ procs[p].pc = "id_exists"
    /\ SetProc(p, [procs[p] EXCEPT
                     !.id_exists = exists(mtab, procs[p].b, procs[p].id, now, "none", FALSE).ret,
                     !.pc = "execute"])
    /\ UNCHANGED <<Config, tbl, mtab, now, run, last, hist>>

\* lines 65-69: the insert or the update, and the commit on leaving the block (a
\* statement that conflicts with an uncommitted one waits for it, so statement and
\* commit take effect together)
TExecute(p) ==
    /\ procs[p].pc = "execute"
    /\ LET r == procs[p]
           n == IF r.id_exists THEN Cardinality(mtab.rows)
                               ELSE Cardinality(Matching(mtab, r.id)) + 1
       IN  IF PKViolation(n)
           THEN /\ SetProc(p, Done(r, "IntegrityError"))
                /\ UNCHANGED mtab
           ELSE /\ SetProc(p, [r EXCEPT !.pc = "assert"])
                /\ mtab' = IF r.id_exists THEN UpdateMarker(mtab, r.id, now)
                                          ELSE InsertMarker(mtab, r.b, r.id)
    /\ UNCHANGED <<Config, tbl, now, run, last, hist>>

\* line 70
TAssert(p) ==
    /\ procs[p].pc = "assert"
    /\ LET recheck == exists(mtab, procs[p].b, procs[p].id, now, "none", FALSE).ret
       IN  SetProc(p, Done([procs[p] EXCEPT !.ret = recheck], AssertExists(recheck)))
    /\ UNCHANGED <<Config, tbl, mtab, now, run, last, hist>>

\* lines 76-84
ELookup(p) ==
    /\ procs[p].pc = "lookup"
    /\ SetProc(p, Done([procs[p] EXCEPT
                          !.ret = exists(mtab, procs[p].b, procs[p].id, now, "none", FALSE).ret],
                       "ok"))
    /\ UNCHANGED <<Config, tbl, mtab, now, run, last, hist>>

\* two processes resolve the same target table
InitResolveRace == InitWith(BOOLEAN, ColumnKinds, {1}, {Rows(<<>>)})

NextResolveRace ==
    \/ \E p \in Procs : CallCreateTable(p)
    \/ \E p \in Procs : CTHasTable(p)
    \/ \E p \in Procs : CTCheckFirst(p)
    \/ \E p \in Procs : CTCreate(p)
    \/ \E p \in Procs : CTReflect(p)

SpecResolveRace == InitResolveRace /\ [][NextResolveRace]_vars

\* the marker tables earlier calls leave: none, or one holding records of some ids
MarkerTables ==
    {[exists |-> FALSE, rows |-> {}]} \cup
    {[exists |-> TRUE,
      rows |-> {[update_id |-> id, target_table |-> "t", inserted |-> Null, copy |-> 1] :
                  id \in I}] : I \in SUBSET Ids}

\* two processes touch, or look up, markers
InitMarkerRace ==
    /\ reflect = FALSE
    /\ columns = "valid"
    /\ chunk_size = 1
    /\ input = Rows(<<>>)
    /\ tbl = [exists |-> TRUE, ncols |-> NCols, rows |-> <<>>]
    /\ mtab \in MarkerTables
    /\ now = 1
    /\ run = IdleRun
    /\ last = NoLast
    /\ hist = [unguarded |-> {}, nruns |-> 0]
    /\ procs = [p \in Procs |-> IdleProc]

NextMarkerRace ==
    \/ \E p \in Procs, id \in Ids : CallTouch(p, id)
    \/ \E p \in Procs, id \in Ids : CallExists(p, id)
    \/ \E p \in Procs : CMHasTable(p)
    \/ \E p \in Procs : CMCheckFirst(p)
    \/ \E p \in Procs : CMCreate(p)
    \/ \E p \in Procs : CMReflect(p)
    \/ \E p \in Procs : TIdExists(p)
    \/ \E p \in Procs : TExecute(p)
    \/ \E p \in Procs : TAssert(p)
    \/ \E p \in Procs : ELookup(p)

SpecMarkerRace == InitMarkerRace /\ [][NextMarkerRace]_vars

----------------------------------------------------------------------------
(* Observations the properties are stated with *)

\* the positions of the target table holding input row i loaded for update id
Copies(id, i) == {k \in DOMAIN tbl.rows : tbl.rows[k].src = id /\ tbl.rows[k].idx = i}

\* the rows the current run() attempt has made visible in the target table
Visible ==
    LET mine(r) == r.src = run.id /\ r.att = run.att
    IN  SelectSeq(tbl.rows, mine)

\* input row i as a table of nc columns stores it
Stored(nc, i) == StoredRow(nc, ZipRow(nc, input[i]))

\* every input row has as many fields as the bound table has columns
WellShaped(nc) == \A i \in DOMAIN input : Len(input[i]) = nc

\* the run's whole input, as the attempt's rows in the target table
WholeInput ==
    [i \in DOMAIN input |->
        [src |-> run.id, att |-> run.att, idx |-> i, vals |-> Stored(run.tb.ncols, i)]]

RECURSIVE Concat(_)
Concat(B) == IF B = <<>> THEN <<>> ELSE Head(B) \o Concat(Tail(B))

RunEndedAt(stage) == run.pc = "done" /\ run.stage = stage

\* create_table() of the current run() has returned or raised
Resolved == run.pc # "idle"

\* `columns` is not a list of well-formed (args, kwargs) specs with a type
Malformed == columns \in {"empty", "badlen", "notype"}

----------------------------------------------------------------------------
(* C1: Exactly-once load.  For an update id whose run() attempts were each  *)
(* started right after exists() returned false, the target table never      *)
(* holds an input row of that id more than once, and holds every input row  *)
(* exactly once whenever the marker record of the id is present, whatever   *)
(* backend failures occur.  (Stated as claimed; the code violates it.)      *)
ExactlyOnceLoad ==
    \A id \in Ids \ hist.unguarded :
        /\ \A i \in DOMAIN input : Cardinality(Copies(id, i)) <= 1
        /\ Marked(id) => \A i \in DOMAIN input : Cardinality(Copies(id, i)) = 1

----------------------------------------------------------------------------
(* C2: All-or-nothing on failure.  When run() has ended because a batch     *)
(* insert or the commit failed, no row of that attempt is visible in the    *)
(* target table, touch() was not called and the marker of the update id is  *)
(* as absent as it was when the run began.                                  *)
AllOrNothingOnFailure ==
    (RunEndedAt("insert") \/ RunEndedAt("commit")) =>
        /\ Visible = <<>>
        /\ ~run.touched
        /\ ~run.marked => ~Marked(run.id)

\* the insert of the last of several batches failed
LastBatchFailed ==
    /\ RunEndedAt("insert")
    /\ run.faulty
    /\ run.pos > 0
    /\ run.pos + chunk_size >= Len(input)
    /\ Len(input) = MaxRows

----------------------------------------------------------------------------
(* C3: Marker only after commit.  While the data transaction of a run() is  *)
(* open the marker of its update id is untouched; touch() is reached only   *)
(* with that transaction closed and every input row of the attempt visible; *)
(* and in every state a marker record implies that every input row of its   *)
(* update id is visible in the target table (as the table stores it).       *)
MarkerOnlyAfterCommit ==
    /\ run.pc \in {"load", "commit"} =>
           /\ ~run.touched
           /\ Marked(run.id) <=> run.marked
           /\ Visible = <<>>
    /\ (run.pc = "touch" \/ RunEndedAt("touch")) =>
           /\ run.tx = <<>>
           /\ Visible = WholeInput
    /\ \A id \in Ids :
           Marked(id) => \A i \in DOMAIN input :
                            \E k \in Copies(id, i) : tbl.rows[k].vals = Stored(tbl.ncols, i)

\* a run of a non-empty input has written its marker
MarkerWrittenByRun ==
    /\ RunEndedAt("touch")
    /\ run.outcome = "ok"
    /\ ~run.marked
    /\ Marked(run.id)
    /\ Len(input) > 0

----------------------------------------------------------------------------
(* C4: Idempotent completion.  Whatever the marker table holds, a touch(id) *)
(* that meets no backend failure succeeds and leaves exactly one record for *)
(* id; when the record was already there (a second touch) the row count is  *)
(* unchanged and `inserted` is the time of the call.  (Stated as claimed;   *)
(* the code violates it.)                                                   *)
IdempotentCompletion ==
    (last.op = "touch" /\ ~last.faulty) =>
        /\ last.outcome = "ok"
        /\ Cardinality(Matching(mtab, last.id)) = 1
        /\ last.had =>
               /\ Cardinality(mtab.rows) = last.n0
               /\ \A r \in Matching(mtab, last.id) : r.inserted = now - 1

----------------------------------------------------------------------------
(* C5: Existence transition.                                                *)

\* the step wrote the marker: a touch(id) whose transaction committed; such a
\* touch returns normally or raises from the re-check of line 70
TouchCommitted(l, r, id, outcomes) ==
    \/ l.op = "touch" /\ l.id = id /\ l.outcome \in outcomes
    \/ r.pc = "done" /\ r.stage = "touch" /\ r.id = id /\ r.outcome \in outcomes

\* a call that returned normally
TouchReturned(l, r, id) == TouchCommitted(l, r, id, {"ok"})

(* C5 as claimed: the marker record of id is absent in every state before   *)
(* the first successful touch(id), present after a successful touch(id),    *)
(* and once present it stays.  (The code violates the first part.)          *)
ExistsFalseBeforeSuccessfulTouch ==
    /\ [](\A id \in Ids : TouchReturned(last, run, id) => Marked(id))
    /\ [][\A id \in Ids :
            /\ Marked(id) => Marked(id)'
            /\ (~Marked(id) /\ Marked(id)') => TouchReturned(last', run', id)]_vars

(* C5 as amended: the marker record of id is absent in every state before   *)
(* the first touch(id) whose transaction commits (a touch that returns, or  *)
(* one that then raises from its re-check), is present after a successful   *)
(* touch(id), and once present stays present through every later exists,    *)
(* touch and run on any update id; an exists(id) that returns true finds a  *)
(* record, and one that meets no failure returns true iff there is one.     *)
ExistenceTransition ==
    /\ [](/\ \A id \in Ids : TouchReturned(last, run, id) => Marked(id)
          /\ (last.op = "exists" /\ last.outcome = "ok") =>
                 /\ last.ret => Marked(last.id)
                 /\ ~last.faulty => (last.ret <=> Marked(last.id)))
    /\ [][\A id \in Ids :
            /\ Marked(id) => Marked(id)'
            /\ (~Marked(id) /\ Marked(id)') =>
                   TouchCommitted(last', run', id, {"ok", "AssertionError"})]_vars

\* a touch that raised has left the marker record it wrote, beside another
\* id's record
MarkerLeftByFailedTouch ==
    /\ last.op = "touch"
    /\ last.outcome = "AssertionError"
    /\ ~last.had
    /\ Marked(last.id)
    /\ last.n0 > 0

----------------------------------------------------------------------------
(* C6: exists(id) never raises: it returns true iff a marker row has the    *)
(* update id and the lookup did not fail, and returns false when the        *)
(* backend fails, the marker table being bound or not.  (Stated as claimed; *)
(* the code violates it.)                                                   *)
ExistsNeverRaises ==
    last.op = "exists" =>
        /\ last.outcome = "ok"
        /\ last.ret <=> (Marked(last.id) /\ ~last.faulty)

----------------------------------------------------------------------------
(* C7: touch() post-condition.  A touch() whose transaction committed has   *)
(* re-checked exists(): it returns normally only if the re-check reported   *)
(* true (the record is then present) and raises AssertionError if it        *)
(* reported false; run() ends with that error, its rows already committed.  *)
TouchPostCondition ==
    /\ last.op = "touch" =>
           /\ last.outcome = "ok" => last.recheck /\ Marked(last.id)
           /\ last.outcome = "AssertionError" => ~last.recheck
    /\ RunEndedAt("touch") =>
           /\ run.outcome = "ok" => run.recheck /\ Marked(run.id)
           /\ run.outcome = "AssertionError" => ~run.recheck /\ Visible = WholeInput

\* run() ended with the assertion error of touch(), its rows committed
RunEndedByAssertion ==
    /\ RunEndedAt("touch")
    /\ run.outcome = "AssertionError"
    /\ Len(Visible) = 2

----------------------------------------------------------------------------
(* C8: Chunk partition.  With chunk_size c >= 1 and N input rows, a load    *)
(* that reaches its commit has issued exactly ceil(N/c) inserts, each but   *)
(* the last of c rows and the last of 1..c rows, whose concatenation is the *)
(* input in order (each row zipped with the columns: the row itself when it *)
(* is as wide as the table); the batches issued so far are always full      *)
(* batches covering the rows consumed.                                      *)
ChunkPartition ==
    LET B == run.issued
        N == Len(input)
        mapped == [i \in DOMAIN input |-> ZipRow(run.tb.ncols, input[i])]
    IN  /\ run.pc = "load" =>
               /\ \A k \in DOMAIN B : Len(B[k]) = chunk_size
               /\ Concat(B) = SubSeq(mapped, 1, run.pos)
               /\ run.batch = SubSeq(mapped, run.pos + 1, Min(run.pos + chunk_size, N))
        /\ run.pc \in {"commit", "touch"} =>
               /\ Len(B) = (N + chunk_size - 1) \div chunk_size
               /\ \A k \in DOMAIN B : k < Len(B) => Len(B[k]) = chunk_size
               /\ B # <<>> => Len(B[Len(B)]) \in 1..chunk_size
               /\ Concat(B) = mapped
               /\ WellShaped(run.tb.ncols) => Concat(B) = input

\* five rows in chunks of two: batches of sizes [2, 2, 1]
ChunksOfTwoAndOne ==
    /\ run.pc = "commit"
    /\ chunk_size = 2
    /\ Len(input) = 5
    /\ WellShaped(run.tb.ncols)
    /\ Len(run.issued) = 3
    /\ Len(run.issued[1]) = 2
    /\ Len(run.issued[2]) = 2
    /\ Len(run.issued[3]) = 1

----------------------------------------------------------------------------
(* C9: End-to-end completion.  A run() that meets no backend failure, on a  *)
(* resolved table whose column count every input row matches, ends without  *)
(* error; the rows it has added to the target table are exactly the input   *)
(* rows, in order, and the marker of its update id is present.  The loop    *)
(* consumes at least one row per insert, so it ends.                        *)
EndToEndCompletion ==
    /\ (run.pc = "done" /\ ~run.faulty /\ run.tb.set /\ WellShaped(run.tb.ncols)) =>
           /\ run.outcome = "ok"
           /\ Visible = WholeInput
           /\ \A i \in DOMAIN input : Visible[i].vals = input[i]
           /\ Marked(run.id)
    /\ run.pc = "load" => run.batch # <<>> /\ run.pos + Len(run.batch) <= Len(input)
    /\ run.pc \in {"load", "commit", "touch"} => ENABLED (LoadBatch \/ RunCommit \/ RunTouch)

\* two rows, one to a chunk: two rows loaded and the marker present
TwoRowsLoaded ==
    /\ run.pc = "done"
    /\ run.outcome = "ok"
    /\ ~run.faulty
    /\ chunk_size = 1
    /\ Len(input) = 2
    /\ WellShaped(run.tb.ncols)
    /\ Len(Visible) = 2
    /\ Marked(run.id)

----------------------------------------------------------------------------
(* C10: Row shape check.  When some input row has not as many fields as the *)
(* bound table has columns, the load ends in an error before its commit and *)
(* no row of the attempt is visible in the target table.  (Stated as        *)
(* claimed; the code violates it.)                                          *)
RowShapeChecked ==
    (run.tb.set /\ ~WellShaped(run.tb.ncols)) =>
        /\ run.pc # "touch"
        /\ run.pc = "done" => run.outcome # "ok"
        /\ Visible = <<>>

----------------------------------------------------------------------------
(* C11: Malformed schema rejection.  With reflect = False, when `columns`   *)
(* is empty or a column spec omits its type, create_table raises to its     *)
(* caller and the target table is neither created nor altered.  (Stated as  *)
(* claimed; the code violates it.)                                          *)
MalformedSchemaRejected ==
    (~reflect /\ Malformed /\ Resolved) =>
        /\ RunEndedAt("create_table")
        /\ run.outcome = "NotImplementedError"
        /\ tbl = run.t0

----------------------------------------------------------------------------
(* C12: Reflect-only on a missing table.  With reflect = True, when the     *)
(* target table does not exist, create_table raises to its caller and the   *)
(* backend holds no table it did not hold before.  (Stated as claimed; the  *)
(* code violates it.)                                                       *)
ReflectOnlyNeverCreates ==
    (reflect /\ Resolved /\ ~run.t0.exists) =>
        /\ RunEndedAt("create_table")
        /\ run.outcome \in {"NotImplementedError", "BackendError"}
        /\ ~tbl.exists

----------------------------------------------------------------------------
(* C13: Schema reuse.  Resolving a table that exists never re-creates or    *)
(* alters it and never changes its rows (the table then holds what it held  *)
(* plus the rows the run itself commits), and the handle carries the schema *)
(* of the table, not the column specs.  A resolution that the resolver      *)
(* accepts (reflect on an existing table, or well-formed columns) and that  *)
(* meets no backend failure returns a handle with the schema on disk, on    *)
(* the first run and on every later one; a table's schema never changes.    *)

\* the configurations for which the resolver is to return a handle
Accepted == (reflect /\ run.t0.exists) \/ (~reflect /\ columns = "valid")

SchemaReuse ==
    /\ [](/\ (Resolved /\ run.t0.exists) =>
                 /\ tbl.exists
                 /\ tbl.ncols = run.t0.ncols
                 /\ tbl.rows = run.t0.rows \o Visible
                 /\ run.tb.set => run.tb.ncols = run.t0.ncols
          /\ (Resolved /\ Accepted /\ ~run.faulty) =>
                 /\ ~RunEndedAt("create_table")
                 /\ run.tb.set
                 /\ tbl.exists
                 /\ run.tb.ncols = tbl.ncols)
    /\ [][tbl.exists => tbl'.exists /\ tbl'.ncols = tbl.ncols]_vars

\* the second run has bound the table the first run created and loaded; the
\* column specs are not those of the table
SecondRunReflects ==
    /\ hist.nruns = 2
    /\ run.pc = "load"
    /\ run.tx = <<>>
    /\ ~run.faulty
    /\ run.t0.exists
    /\ Len(run.t0.rows) = 2
    /\ tbl = run.t0
    /\ run.tb = [set |-> TRUE, ncols |-> tbl.ncols]
    /\ NumColumns # tbl.ncols

----------------------------------------------------------------------------
(* C15: Schema-resolution failure is fatal.  When create_table has failed   *)
(* (it raised, or the existence check, the create or the reflect failed and *)
(* left no bound handle on an existing table), run() ends in an error, no   *)
(* row is inserted into the target table and the marker is not touched.     *)
(* (Stated as claimed; the code violates it.)                               *)
ResolutionFailed ==
    Resolved /\ (RunEndedAt("create_table") \/ ~run.tb.set \/ ~tbl.exists)

ResolutionFailureIsFatal ==
    ResolutionFailed =>
        /\ run.pc \in {"load", "commit", "done"}
        /\ run.pc = "done" => run.outcome # "ok"
        /\ run.tx = <<>> /\ Visible = <<>>
        /\ ~run.touched
        /\ Marked(run.id) <=> run.marked

----------------------------------------------------------------------------
(* C17: Frame of touch.  A touch(id), standalone or at the end of run(),    *)
(* leaves the record of every other update id as it was: its update_id,     *)
(* target_table and inserted values are unchanged, whether id's record was  *)
(* absent (insert) or present (update).                                     *)

\* the step is a touch() call on id
TouchStep(id) ==
    /\ now' = now + 1
    /\ \/ run.pc = "touch" /\ run.id = id
       \/ run.pc # "touch" /\ last'.op = "touch" /\ last'.id = id

\* the records of the update ids other than id
OtherRecords(m, id) == {r \in m.rows : r.update_id # id}

FrameOfTouch ==
    [][\A id \in Ids :
          TouchStep(id) => OtherRecords(mtab, id)' = OtherRecords(mtab, id)]_vars

\* a touch on the update path, made beside the record of another update id
TouchedBesideAnother ==
    /\ last.op = "touch"
    /\ last.had
    /\ ~last.faulty
    /\ last.n0 = 2
    /\ OtherRecords(mtab, last.id) # {}
    /\ Marked(last.id)

----------------------------------------------------------------------------
(* C18: Insert timestamp.  When a touch(id) has inserted a new record, the  *)
(* record's `inserted` is the time of that call, whether the call created   *)
(* the marker table or bound it by reflection; no record ever holds a NULL  *)
(* `inserted`.  (Stated as claimed; the code violates it.)                  *)
InsertTimestamp ==
    /\ (last.op = "touch" /\ last.outcome = "ok" /\ ~last.had) =>
           \A r \in Matching(mtab, last.id) : r.inserted = now - 1
    /\ (RunEndedAt("touch") /\ run.outcome = "ok" /\ ~run.marked) =>
           \A r \in Matching(mtab, run.id) : r.inserted = now - 1
    /\ \A r \in mtab.rows : r.inserted # Null

----------------------------------------------------------------------------
(* C14: Create-or-reflect race.  When two processes resolve a target table  *)
(* that neither found (well-formed columns, reflect = False), then under    *)
(* every interleaving of their existence checks and create statements the   *)
(* table is created exactly once, neither create_table call raises (the     *)
(* backend's "table already exists" error is caught), and both end with a   *)
(* bound handle that has the columns of the table.                          *)
Creators == {p \in Procs : procs[p].created}

CreateOrReflectRace ==
    /\ Cardinality(Creators) <= 1
    /\ (/\ ~reflect /\ columns = "valid"
        /\ \A p \in Procs : /\ procs[p].op = "create_table"
                            /\ procs[p].pc = "done"
                            /\ ~procs[p].had) =>
           /\ tbl.exists
           /\ Cardinality(Creators) = 1
           /\ \A p \in Procs : /\ procs[p].outcome = "ok"
                               /\ procs[p].tb.set
                               /\ procs[p].tb.ncols = tbl.ncols

\* both processes sent CREATE TABLE; the second one's error was caught
CreateRejectedAndCaught ==
    /\ ~reflect /\ columns = "valid"
    /\ \A p \in Procs : procs[p].pc = "done" /\ ~procs[p].seen /\ procs[p].tb.set
    /\ \E p \in Procs : procs[p].logged = "TableExistsError"
    /\ \E p \in Procs : procs[p].created

----------------------------------------------------------------------------
(* C16: Marker uniqueness under races.  Under every interleaving of the     *)
(* statements of two touch() calls, on the same or on different update ids, *)
(* the marker table never holds more than one record of an update id; when  *)
(* both calls touch one id whose record was absent, exactly one record of   *)
(* it results and at least one of the two calls returns normally.           *)
MarkerUniqueUnderRaces ==
    /\ \A id \in Ids : Cardinality(Matching(mtab, id)) <= 1
    /\ \A id \in Ids :
           (\A p \in Procs : /\ procs[p].op = "touch" /\ procs[p].id = id
                             /\ ~procs[p].had /\ procs[p].pc = "done") =>
               /\ Cardinality(Matching(mtab, id)) = 1
               /\ \E p \in Procs : procs[p].outcome = "ok"

\* both calls found no record of the id and both sent the insert: the primary key
\* rejected the second, beside the record of another id
InsertRaceLost ==
    /\ \A p \in Procs : /\ procs[p].op = "touch" /\ procs[p].id = "a"
                        /\ ~procs[p].had /\ ~procs[p].id_exists /\ procs[p].pc = "done"
    /\ \E p \in Procs : procs[p].outcome = "IntegrityError"
    /\ \E p \in Procs : procs[p].outcome = "ok"
    /\ Cardinality(mtab.rows) = 2

----------------------------------------------------------------------------
(* C19: Marker-table create-if-absent under races.  When two processes call *)
(* create_marker_table (through touch() or exists()) while the marker table *)
(* does not exist, it is created exactly once, neither call raises and both *)
(* end bound to it; a call that finds the table neither creates it nor      *)
(* changes its records.  (Stated as claimed; the code violates it.)         *)
PastMarkerTable(p) == procs[p].pc \in {"id_exists", "execute", "assert", "lookup"}

MarkerTableCreateRace ==
    /\ Cardinality(Creators) <= 1
    /\ \A p \in Procs :
           /\ procs[p].outcome # "TableExistsError"
           /\ PastMarkerTable(p) => mtab.exists /\ procs[p].b.set
           /\ procs[p].seen => ~procs[p].created
           /\ (procs[p].pc = "done" /\ procs[p].op = "exists") =>
                  mtab.exists /\ procs[p].b.set

====
